---- MODULE Spec2Model ----
(***************************************************************************)
(* A model of scripts/preprocessing_utils.py: the dataset transformations  *)
(* standardize_dims, subset_dims and resample_time, the packaging function *)
(* create_dataset and the writer save_dataset.                             *)
(*                                                                         *)
(* A dataset is a record                                                   *)
(*    dims   : the axis order of its data variable (a sequence of names),   *)
(*    coords : dimension name -> sequence of coordinate labels,             *)
(*    kind   : dimension name -> numpy dtype kind of the coordinate         *)
(*             ("M" datetime64, "O" cftime objects, "i" integer, "f" float),*)
(*    data   : index tuple (one position per axis, in dims order) -> value. *)
(* datetime64 labels are minutes since 1970-01-01T00:00; cftime labels are  *)
(* packed calendar fields; a missing data value (NaN) is the number NaN.    *)
(***************************************************************************)
EXTENDS Integers, Sequences, FiniteSets, TLC

VARIABLES
    d,       \* the dataset object the caller holds and passes as `data`
    origin,  \* what produced d: "input", or the operation whose result was bound to it
    call,    \* the last call: its name and the argument values at entry
    ret,     \* what the last call returned or raised
    fs,      \* the file system: path -> content of the file there
    writes   \* the paths written so far, in order

vars == <<d, origin, call, ret, fs, writes>>

\* ---------------------------------------------------------------- bounds
MaxLen == 2
MaxWrites == 2

\* ------------------------------------------------------- values and kinds
NaN == -1
NoCall == [op |-> "none"]
NoRet == [tag |-> "none"]

\* ------------------------------------------------------------- calendar
\* Days since 1970-01-01 of a proleptic Gregorian date.
DaysFromCivil(y, m, dd) ==
    LET yy  == IF m <= 2 THEN y - 1 ELSE y
        era == yy \div 400
        yoe == yy - era * 400
        mp  == IF m > 2 THEN m - 3 ELSE m + 9
        doy == (153 * mp + 2) \div 5 + dd - 1
        doe == yoe * 365 + yoe \div 4 - yoe \div 100 + doy
    IN era * 146097 + doe - 719468

\* The calendar date of a day number (inverse of DaysFromCivil).
CivilFromDays(z) ==
    LET zz  == z + 719468
        era == zz \div 146097
        doe == zz - era * 146097
        yoe == (doe - doe \div 1460 + doe \div 36524 - doe \div 146096) \div 365
        doy == doe - (365 * yoe + yoe \div 4 - yoe \div 100)
        mp  == (5 * doy + 2) \div 153
        dd  == doy - (153 * mp + 2) \div 5 + 1
        m   == IF mp < 10 THEN mp + 3 ELSE mp - 9
        y   == yoe + era * 400 + (IF m <= 2 THEN 1 ELSE 0)
    IN [year |-> y, month |-> m, day |-> dd]

\* A datetime64 label: minutes since the epoch.
Stamp(y, m, dd, h, mi) == DaysFromCivil(y, m, dd) * 1440 + h * 60 + mi

\* A cftime label: the calendar fields packed into one number (year, month,
\* day of month, minute of day), not an offset from an epoch.
CF(y, m, dd, h, mi) == ((y * 12 + (m - 1)) * 31 + (dd - 1)) * 1440 + h * 60 + mi

\* CFTimeIndex.to_datetimeindex: the same instant as a datetime64 label.
to_datetimeindex(c) ==
    LET mins == c % 1440
        days == c \div 1440
        mons == days \div 31
    IN Stamp(mons \div 12, (mons % 12) + 1, (days % 31) + 1, mins \div 60, mins % 60)

\* The .year and .month accessors of a datetime64 label.
YearOf(t) == CivilFromDays(t \div 1440).year
MonthOf(t) == CivilFromDays(t \div 1440).month

\* --------------------------------------------------------- dataset algebra
Dims3 == <<"time", "lat", "lon">>
Dims4 == <<"time", "lat", "lon", "lev">>

Range(s) == {s[i] : i \in DOMAIN s}
HasDim(ds, dim) == dim \in Range(ds.dims)
AxisOf(dims, dim) == CHOOSE k \in DOMAIN dims : dims[k] = dim
Shape(ds) == [k \in DOMAIN ds.dims |-> Len(ds.coords[ds.dims[k]])]

SetMax(S) == IF S = {} THEN 0 ELSE CHOOSE x \in S : \A y \in S : y <= x

\* The index tuples of a dataset's data variable.
Cells(ds) ==
    LET sh == Shape(ds)
        mx == SetMax(Range(sh))
    IN {t \in [DOMAIN ds.dims -> 1..mx] : \A k \in DOMAIN ds.dims : t[k] <= sh[k]}

\* Positional selection along one dimension: idx lists the source positions.
isel(ds, dim, idx) ==
    LET ax  == AxisOf(ds.dims, dim)
        nc  == [ds.coords EXCEPT ![dim] = [j \in 1..Len(idx) |-> ds.coords[dim][idx[j]]]]
        nds == [ds EXCEPT !.coords = nc]
    IN [nds EXCEPT !.data = [t \in Cells(nds) |-> ds.data[[t EXCEPT ![ax] = idx[t[ax]]]]]]

\* Faulty variant: ties ordered last-first: an unstable sort.
Rank_unstable(s, i) == Cardinality({k \in DOMAIN s : s[k] < s[i] \/ (s[k] = s[i] /\ k > i)}) + 1

\* Position of s[i] in the stable ascending order of s.
Rank(s, i) == Cardinality({k \in DOMAIN s : s[k] < s[i] \/ (s[k] = s[i] /\ k < i)}) + 1

\* Faulty variant: no reordering at all.
argsort_none(s) == [j \in 1..Len(s) |-> j]

\* The stable ascending argsort of a sequence of numbers.
argsort(s) == [j \in 1..Len(s) |-> CHOOSE i \in DOMAIN s : Rank(s, i) = j]

\* Dataset.sortby(dims): every listed dimension reordered by its own coordinate.
RECURSIVE sortby_from(_, _, _)
sortby_from(ds, dims, k) ==
    IF k > Len(dims) THEN ds
    ELSE sortby_from(isel(ds, dims[k], argsort(ds.coords[dims[k]])), dims, k + 1)

sortby(ds, dims) == sortby_from(ds, dims, 1)

\* Dataset.transpose(*dims): the axes of the data variable permuted into dims.
transpose(ds, dims) ==
    LET nds == [ds EXCEPT !.dims = dims]
    IN [nds EXCEPT !.data =
            [t \in Cells(nds) |-> ds.data[[k \in DOMAIN ds.dims |-> t[AxisOf(dims, ds.dims[k])]]]]]

\* ------------------------------------------------------- standardize_dims
\* astype(float) of one coordinate label: the same number as a float64.
astype_float(v) == v

MapSeq(Op(_), s) == [i \in DOMAIN s |-> Op(s[i])]

\* The loop over dims, from its k-th element: the coordinates are assigned in
\* place on the argument.  err is "" unless the loop raised.
RECURSIVE standardize_loop(_, _, _)
standardize_loop(ds, dims, k) ==
    IF k > Len(dims) THEN [err |-> "", ds |-> ds]
    ELSE LET dim == dims[k] IN
        IF dim = "time" /\ ds.kind[dim] # "M"
        THEN IF ds.kind[dim] = "O"
             THEN standardize_loop(
                    [ds EXCEPT !.coords[dim] = MapSeq(to_datetimeindex, ds.coords[dim]),
                               !.kind[dim] = "M"], dims, k + 1)
             ELSE [err |-> "AttributeError", ds |-> ds]
        ELSE IF dim # "time"
        THEN standardize_loop(
                    [ds EXCEPT !.coords[dim] = MapSeq(astype_float, ds.coords[dim]),
                               !.kind[dim] = "f"], dims, k + 1)
        ELSE standardize_loop(ds, dims, k + 1)

\* standardize_dims(data): arg is the caller's object after the call, ret what
\* the call returned or raised.
standardize_dims(data) ==
    LET dims == IF HasDim(data, "lev") THEN Dims4 ELSE Dims3
        lp   == standardize_loop(data, dims, 1)
    IN IF lp.err # ""
       THEN [arg |-> lp.ds, ret |-> [tag |-> "raise", by |-> "standardize_dims", err |-> lp.err]]
       ELSE [arg |-> lp.ds,
             ret |-> [tag |-> "ok", by |-> "standardize_dims",
                      ds |-> transpose(sortby(lp.ds, dims), dims)]]

\* ------------------------------------------------------------ subset_dims
\* The instant or number a coordinate label denotes, whatever its dtype kind.
LabelValue(kind, v) == IF kind = "O" THEN to_datetimeindex(v) ELSE v

IsIncreasing(s) == \A i, j \in DOMAIN s : i < j => s[i] <= s[j]
IsDecreasing(s) == \A i, j \in DOMAIN s : i < j => s[i] >= s[j]

\* Faulty variant: a right bound that excludes the label itself.
slice_bound_exclusive(index, label, side) ==
    LET n == Cardinality({i \in DOMAIN index : index[i] < label})
    IN [err |-> "", pos |-> n]

\* pandas Index.get_slice_bound as reached from sel(dim=slice(lo, hi)): the
\* 0-based position where a slice starting (side "left") or ending (side
\* "right") at label cuts the index.  A label that occurs cuts at its run of
\* occurrences; one that does not is located by binary search in a monotonic
\* index and is a KeyError otherwise.
slice_bound(index, label, side) ==
    LET occ == {i \in DOMAIN index : index[i] = label}
        lo  == CHOOSE i \in occ : \A j \in occ : i <= j
        hi  == CHOOSE i \in occ : \A j \in occ : i >= j
    IN IF occ # {}
       THEN IF IsIncreasing(index) \/ IsDecreasing(index) \/ occ = lo..hi
            THEN [err |-> "", pos |-> IF side = "left" THEN lo - 1 ELSE hi]
            ELSE [err |-> "KeyError", pos |-> 0]
       ELSE IF IsIncreasing(index)
            THEN [err |-> "", pos |-> Cardinality({i \in DOMAIN index : index[i] < label})]
            ELSE IF IsDecreasing(index)
            THEN [err |-> "", pos |-> Cardinality({i \in DOMAIN index : index[i] > label})]
            ELSE [err |-> "KeyError", pos |-> 0]

\* data.sel(dim=slice(lo, hi)): label-based slicing of one dimension.
sel_slice(ds, dim, lo, hi) ==
    LET index == IF HasDim(ds, dim) THEN ds.coords[dim] ELSE <<>>
        start == slice_bound(index, lo, "left")
        stop  == slice_bound(index, hi, "right")
        n     == IF stop.pos > start.pos THEN stop.pos - start.pos ELSE 0
    IN IF ~HasDim(ds, dim) THEN [err |-> "ValueError", ds |-> ds]
       ELSE IF start.err # "" THEN [err |-> start.err, ds |-> ds]
       ELSE IF stop.err # "" THEN [err |-> stop.err, ds |-> ds]
       ELSE [err |-> "", ds |-> isel(ds, dim, [j \in 1..n |-> start.pos + j])]

\* The positions of a sequence whose element satisfies Keep, in order.
RECURSIVE where_from(_, _, _)
where_from(Keep(_), s, k) ==
    IF k > Len(s) THEN <<>>
    ELSE (IF Keep(s[k]) THEN <<k>> ELSE <<>>) \o where_from(Keep, s, k + 1)

\* Faulty variant: a time step is kept when its year or its month is listed.
time_mask_or(years, months, t) == YearOf(t) \in years \/ MonthOf(t) \in months

\* data['time.year'].isin(years) & data['time.month'].isin(months) at one label.
time_mask(years, months, t) == YearOf(t) \in years /\ MonthOf(t) \in months

\* data.sel(time=mask): the time steps whose mask is true.
sel_time(ds, years, months) ==
    LET Keep(v) == time_mask(years, months, LabelValue(ds.kind["time"], v))
    IN isel(ds, "time", where_from(Keep, ds.coords["time"], 1))

\* Faulty variant: the level slice is taken whenever a level range is supplied.
lev_sliced_any(ds, levrange) == Len(levrange) > 0

\* `levrange and 'lev' in data.dims`; the omitted levrange (None) is <<>>.
lev_sliced(ds, levrange) == Len(levrange) > 0 /\ HasDim(ds, "lev")

\* subset_dims(data, years, months, latrange, lonrange, levrange).  The
\* argument is never assigned to: only the local name is rebound.  The
\* time.year accessor exists only for datetime-like coordinates.
subset_dims(data, years, months, latrange, lonrange, levrange) ==
    LET Raise(e) == [tag |-> "raise", by |-> "subset_dims", err |-> e]
        s1 == sel_slice(data, "lat", latrange[1], latrange[2])
        s2 == sel_slice(s1.ds, "lon", lonrange[1], lonrange[2])
        s3 == sel_time(s2.ds, years, months)
        s4 == sel_slice(s3, "lev", levrange[1], levrange[2])
    IN IF s1.err # "" THEN Raise(s1.err)
       ELSE IF s2.err # "" THEN Raise(s2.err)
       ELSE IF data.kind["time"] \notin {"M", "O"} THEN Raise("KeyError")
       ELSE IF lev_sliced(s3, levrange)
            THEN IF s4.err # "" THEN Raise(s4.err)
                 ELSE [tag |-> "ok", by |-> "subset_dims", ds |-> s4.ds]
            ELSE [tag |-> "ok", by |-> "subset_dims", ds |-> s3]

\* ---------------------------------------------------------- resample_time
\* The length in minutes of a pandas frequency string.
FreqMinutes(frequency) ==
    CASE frequency = "30min" -> 30
      [] frequency = "h"     -> 60
      [] frequency = "D"     -> 1440

\* data.time.dt.floor(frequency) at one label: down to the frequency boundary.
floor(t, frequency) == t - (t % FreqMinutes(frequency))

\* The distinct labels of a sequence in ascending order: the group keys.
unique_sorted(s) ==
    LET U == Range(s)
    IN [j \in 1..Cardinality(U) |->
            CHOOSE u \in U : Cardinality({w \in U : w < u}) = j - 1]

\* GroupBy.first() over the member positions of one group, Val giving the value
\* at a position: skipna is left at its default, so the first value that is
\* not missing is taken, and a missing one only when every member is missing.
first(members, Val(_)) ==
    LET present == {i \in members : Val(i) # NaN}
    IN IF present = {} THEN NaN
       ELSE Val(CHOOSE i \in present : \A j \in present : i <= j)

\* data.groupby('time').first(): one time step per distinct time label.
groupby_time_first(ds) ==
    LET ax   == AxisOf(ds.dims, "time")
        keys == unique_sorted(ds.coords["time"])
        nds  == [ds EXCEPT !.coords["time"] = keys]
        Members(key) == {i \in DOMAIN ds.coords["time"] : ds.coords["time"][i] = key}
    IN [nds EXCEPT !.data =
            [t \in Cells(nds) |->
                LET Val(i) == ds.data[[t EXCEPT ![ax] = i]]
                IN first(Members(keys[t[ax]]), Val)]]

\* resample_time(data, frequency): the floored time coordinate is assigned in
\* place on the argument before the grouping.  The .dt accessor exists only
\* for datetime-like coordinates.
resample_time(data, frequency) ==
    LET Floor(v) == floor(v, frequency)
        floored == [data EXCEPT !.coords["time"] = MapSeq(Floor, data.coords["time"])]
    IN IF data.kind["time"] \notin {"M", "O"}
       THEN [arg |-> data, ret |-> [tag |-> "raise", by |-> "resample_time", err |-> "TypeError"]]
       ELSE [arg |-> floored,
             ret |-> [tag |-> "ok", by |-> "resample_time", ds |-> groupby_time_first(floored)]]

\* --------------------------------------------------------- create_dataset
\* Names of data variables and paths are sequences of characters.
DimChars(dim) ==
    CASE dim = "time" -> <<"t", "i", "m", "e">>
      [] dim = "lat"  -> <<"l", "a", "t">>
      [] dim = "lon"  -> <<"l", "o", "n">>
      [] dim = "lev"  -> <<"l", "e", "v">>

Digit(n) == <<"0", "1", "2", "3", "4", "5", "6", "7", "8", "9">>[n + 1]

\* datetime.strftime('%Y-%m-%d') of a date.
strftime_ymd(date) ==
    Digit((date.year \div 1000) % 10) \o Digit((date.year \div 100) % 10)
        \o Digit((date.year \div 10) % 10) \o Digit(date.year % 10)
        \o "-" \o Digit(date.month \div 10) \o Digit(date.month % 10)
        \o "-" \o Digit(date.day \div 10) \o Digit(date.day % 10)

\* Faulty variant: every coordinate of the input array is carried over.
coord_names_all(data) == DOMAIN data.coords

\* The keys of `coords`: one per dimension of the input array.
coord_names(data) == Range(data.dims)

\* Faulty variant: only the long names are attached.
coord_attrs_names_only(dim) ==
    CASE dim = "time" -> [long_name |-> "Time"]
      [] dim = "lat"  -> [long_name |-> "Latitude"]
      [] dim = "lon"  -> [long_name |-> "Longitude"]
      [] dim = "lev"  -> [long_name |-> "Pressure level"]

\* The attrs assigned to each coordinate ("degN" and "degE" stand for the
\* degree-sign strings of the source).
coord_attrs(dim) ==
    CASE dim = "time" -> [long_name |-> "Time"]
      [] dim = "lat"  -> [long_name |-> "Latitude", units |-> "degN"]
      [] dim = "lon"  -> [long_name |-> "Longitude", units |-> "degE"]
      [] dim = "lev"  -> [long_name |-> "Pressure level", units |-> "hPa"]

\* create_dataset(data, shortname, longname, units, source, author, email) on
\* the given day.  xr.Dataset refuses a data variable named like a coordinate.
create_dataset(data, shortname, longname, units, source, author, email, today) ==
    LET names == coord_names(data)
        var   == [name |-> shortname, dims |-> data.dims, data |-> data.data,
                  attrs |-> [long_name |-> longname, units |-> units]]
        ds    == [data_vars |-> <<var>>,
                  coords |-> [dim \in names |->
                                 [values |-> data.coords[dim], attrs |-> coord_attrs(dim)]],
                  attrs |-> [source |-> source,
                             history |-> "Created on " \o strftime_ymd(today) \o " by "
                                            \o author \o " (" \o email \o ")"]]
    IN IF \E dim \in names : DimChars(dim) = shortname
       THEN [tag |-> "raise", by |-> "create_dataset", err |-> "ValueError"]
       ELSE [tag |-> "ok", by |-> "create_dataset", ds |-> ds]

\* ----------------------------------------------------------- save_dataset
\* Faulty variant: the directory is not joined in: the bare file name is the path.
path_join_none(a, b) == b

\* os.path.join(a, b).
path_join(a, b) ==
    IF Len(b) > 0 /\ b[1] = "/" THEN b
    ELSE IF Len(a) = 0 \/ a[Len(a)] = "/" THEN a \o b
    ELSE a \o <<"/">> \o b

\* f'OBS_{key}.nc'
filename_of(key) == <<"O", "B", "S", "_">> \o key \o <<".", "n", "c">>

\* The file system after data.to_netcdf(filepath): the file is created or
\* replaced.
to_netcdf(files, filepath, data) ==
    [p \in DOMAIN files \cup {filepath} |->
        IF p = filepath THEN [format |-> "netcdf", ds |-> data] ELSE files[p]]

\* save_dataset(data, savedir): fs and writes after the call, and what it
\* returned or raised.
save_dataset(data, savedir, files, written) ==
    IF Len(data.data_vars) = 0
    THEN [fs |-> files, writes |-> written,
          ret |-> [tag |-> "raise", by |-> "save_dataset", err |-> "IndexError"]]
    ELSE LET filename == filename_of(data.data_vars[1].name)
             filepath == path_join(savedir, filename)
         IN [fs |-> to_netcdf(files, filepath, data),
             writes |-> Append(written, filepath),
             ret |-> [tag |-> "returned", by |-> "save_dataset"]]

\* ------------------------------------------------------------- the caller
\* A cell value that identifies the cell of the input it was read from.
RECURSIVE CellId(_)
CellId(t) == IF Len(t) = 0 THEN 0 ELSE t[1] + (MaxLen + 2) * CellId(Tail(t))

\* The same dataset with the values at the given time positions missing in the
\* first row of every other axis.
WithMissing(ds, holes) ==
    LET ax == AxisOf(ds.dims, "time")
    IN [ds EXCEPT !.data =
            [t \in Cells(ds) |->
                IF t[ax] \in holes /\ (\A k \in DOMAIN t : k = ax \/ t[k] = 1)
                THEN NaN ELSE ds.data[t]]]

MkDataset(dims, coords, kind) ==
    LET ds == [dims |-> dims, coords |-> coords, kind |-> kind, data |-> <<>>]
    IN [ds EXCEPT !.data = [t \in Cells(ds) |-> CellId(t)]]

SeqsUpTo(S, n) == UNION {[1..k -> S] : k \in 1..n}
Perms(s) == {p \in [DOMAIN s -> Range(s)] : \A i, j \in DOMAIN s : p[i] = p[j] => i = j}

\* Calendar instants the input time coordinates are built from.
Jun15_0000 == CF(2020, 6, 15, 0, 0)
Jun15_0030 == CF(2020, 6, 15, 0, 30)
Jun15_0100 == CF(2020, 6, 15, 1, 0)
Jul01_0000 == CF(2020, 7, 1, 0, 0)
Jan31_2330 == CF(2020, 1, 31, 23, 30)
Jun15_2021 == CF(2021, 6, 15, 0, 0)

\* A time coordinate of the given dtype kind holding the given instants.
TimeCoord(kind, cfs) == IF kind = "O" THEN cfs ELSE MapSeq(to_datetimeindex, cfs)

\* Whether x is a dataset built by create_dataset (or one like it) rather than
\* the array the transformations work on.
IsDataset(x) == "data_vars" \in DOMAIN x

\* standardize_dims(data), called once the previous result has been bound or
\* dropped.
CallStandardize ==
    /\ ret = NoRet
    /\ ~IsDataset(d)
    /\ LET r == standardize_dims(d)
       IN /\ d' = r.arg
          /\ ret' = r.ret
    /\ call' = [op |-> "standardize_dims", data |-> d, origin |-> origin]
    /\ UNCHANGED <<origin, fs, writes>>

\* subset_dims(data, ...), called once the previous result has been bound or dropped.
CallSubset(years, months, latrange, lonrange, levrange) ==
    /\ ret = NoRet
    /\ ~IsDataset(d)
    /\ ret' = subset_dims(d, years, months, latrange, lonrange, levrange)
    /\ call' = [op |-> "subset_dims", data |-> d, origin |-> origin,
                years |-> years, months |-> months, latrange |-> latrange,
                lonrange |-> lonrange, levrange |-> levrange]
    /\ UNCHANGED <<d, origin, fs, writes>>

\* resample_time(data, frequency), called once the previous result has been bound or
\* dropped.
CallResample(frequency) ==
    /\ ret = NoRet
    /\ ~IsDataset(d)
    /\ LET r == resample_time(d, frequency)
       IN /\ d' = r.arg
          /\ ret' = r.ret
    /\ call' = [op |-> "resample_time", data |-> d, origin |-> origin,
                frequency |-> frequency]
    /\ UNCHANGED <<origin, fs, writes>>

\* create_dataset(data, ...) on a data array, once the previous result is bound.
CallCreate(shortname, longname, units, source, author, email, today) ==
    /\ ret = NoRet
    /\ ~IsDataset(d)
    /\ ret' = create_dataset(d, shortname, longname, units, source, author, email, today)
    /\ call' = [op |-> "create_dataset", data |-> d, origin |-> origin,
                shortname |-> shortname, longname |-> longname, units |-> units,
                source |-> source, author |-> author, email |-> email, today |-> today]
    /\ UNCHANGED <<d, origin, fs, writes>>

\* save_dataset(data, savedir) on a dataset.
CallSave(savedir) ==
    /\ ret = NoRet
    /\ Len(writes) < MaxWrites
    /\ IsDataset(d)
    /\ LET r == save_dataset(d, savedir, fs, writes)
       IN /\ fs' = r.fs
          /\ writes' = r.writes
          /\ ret' = r.ret
    /\ call' = [op |-> "save_dataset", data |-> d, origin |-> origin,
                savedir |-> savedir, fs |-> fs, writes |-> writes]
    /\ UNCHANGED <<d, origin>>

\* The caller does not use what the call returned or raised.
Discard ==
    /\ ret # NoRet
    /\ ret' = NoRet
    /\ call' = [op |-> "discard"]
    /\ UNCHANGED <<d, origin, fs, writes>>

\* The caller binds the returned dataset to its variable.
Rebind ==
    /\ ret.tag = "ok"
    /\ d' = ret.ds
    /\ origin' = ret.by
    /\ call' = [op |-> "rebind"]
    /\ ret' = NoRet
    /\ UNCHANGED <<fs, writes>>

\* ------------------------------------------- specification: standardize_dims
\* Inputs: every axis order, unsorted and repeated labels (lat up to maxlen
\* long), integer or float spatial coordinates, datetime64 / cftime / integer
\* time, with or without lev.
StdInputs(maxlen) ==
    {MkDataset(dims,
               IF "lev" \in Range(dims)
               THEN [time |-> TimeCoord(tk, ts), lat |-> la, lon |-> lo, lev |-> le]
               ELSE [time |-> TimeCoord(tk, ts), lat |-> la, lon |-> lo],
               IF "lev" \in Range(dims)
               THEN [time |-> tk, lat |-> sk, lon |-> sk, lev |-> sk]
               ELSE [time |-> tk, lat |-> sk, lon |-> sk]) :
        dims \in Perms(Dims3) \cup Perms(Dims4),
        tk \in {"M", "O", "i"},
        ts \in {<<Jun15_0000>>, <<Jun15_0030, Jun15_0000>>, <<Jun15_0000, Jul01_0000>>},
        la \in SeqsUpTo({0, 10}, maxlen),
        lo \in {<<100>>, <<110, 100>>},
        le \in {<<850, 500>>, <<500, 850>>},
        sk \in {"i", "f"}}

InitStandardize ==
    /\ d \in StdInputs(MaxLen)
    /\ origin = "input"
    /\ call = NoCall
    /\ ret = NoRet
    /\ fs = <<>>
    /\ writes = <<>>

NextStandardize == CallStandardize \/ Rebind

SpecStandardize == InitStandardize /\ [][NextStandardize]_vars

IsSorted(s) == \A i, j \in DOMAIN s : i < j => s[i] <= s[j]

\* The coordinate tuple of one cell.
LabelsAt(ds, t) ==
    [dim \in Range(ds.dims) |->
        LabelValue(ds.kind[dim], ds.coords[dim][t[AxisOf(ds.dims, dim)]])]

\* Every (coordinate tuple, value) pair of a dataset.
Attached(ds) == {<<LabelsAt(ds, t), ds.data[t]>> : t \in Cells(ds)}

StandardizeReturned == call.op = "standardize_dims" /\ ret.tag = "ok"

\* C5: standardize_dims returns the dimensions in the canonical order (time,
\* lat, lon[, lev]), every coordinate sorted ascending, and every data value
\* attached to the coordinate tuple it had in the input.
C5_Standardized ==
    StandardizeReturned =>
        /\ ret.ds.dims = (IF HasDim(call.data, "lev") THEN Dims4 ELSE Dims3)
        /\ \A dim \in Range(ret.ds.dims) : IsSorted(ret.ds.coords[dim])
        /\ Attached(ret.ds) = Attached(call.data)
        /\ Cardinality(Cells(ret.ds)) = Cardinality(Cells(call.data))

C5_Witness ==
    /\ StandardizeReturned
    /\ call.data.dims = <<"lev", "lon", "lat", "time">>
    /\ call.data.kind["time"] = "O"
    /\ ~IsSorted(call.data.coords["time"])
    /\ ~IsSorted(call.data.coords["lat"])
    /\ ~IsSorted(call.data.coords["lev"])

\* C4: standardize_dims is idempotent: applied to a dataset that standardize_dims
\* returned, it returns that dataset again (same dimension order, coordinate
\* values and kinds, and data).
C4_Idempotent ==
    (StandardizeReturned /\ call.origin = "standardize_dims") => ret.ds = call.data

C4_Witness ==
    /\ StandardizeReturned
    /\ call.origin = "standardize_dims"
    /\ HasDim(call.data, "lev")
    /\ \E i, j \in DOMAIN call.data.coords["lat"] :
            i # j /\ call.data.coords["lat"][i] = call.data.coords["lat"][j]

\* ------------------------------------------------ specification: subset_dims
\* Inputs: ascending, descending and unordered lat/lon/lev (lat up to maxlen
\* long, and the four-label example), with and without lev; time steps in
\* several years and months.
SubsetTimes ==
    {MapSeq(to_datetimeindex, ts) :
        ts \in {<<Jan31_2330, Jun15_0000, Jul01_0000, Jun15_2021>>,
                <<Jun15_2021, Jul01_0000, Jun15_0030>>,
                <<Jul01_0000>>}}

SubsetInputs(maxlen) ==
    {MkDataset(IF Len(le) > 0 THEN Dims4 ELSE Dims3,
               IF Len(le) > 0
               THEN [time |-> ts, lat |-> la, lon |-> lo, lev |-> le]
               ELSE [time |-> ts, lat |-> la, lon |-> lo],
               IF Len(le) > 0
               THEN [time |-> "M", lat |-> "f", lon |-> "f", lev |-> "f"]
               ELSE [time |-> "M", lat |-> "f", lon |-> "f"]) :
        ts \in SubsetTimes,
        la \in SeqsUpTo({0, 10, 20}, maxlen) \cup {<<0, 10, 20, 30>>, <<30, 20, 10, 0>>},
        lo \in {<<100, 110>>, <<110, 100>>},
        le \in {<<>>, <<500, 850, 1000>>, <<1000, 850, 500>>, <<850, 1000, 500>>}}

InitSubset ==
    /\ d \in SubsetInputs(MaxLen)
    /\ origin = "input"
    /\ call = NoCall
    /\ ret = NoRet
    /\ fs = <<>>
    /\ writes = <<>>

NextSubset ==
    \E years \in {{2020}, {2020, 2021}}, months \in {{6, 7}, {1, 6}},
       latrange \in {<<5, 25>>, <<10, 20>>, <<0, 0>>},
       lonrange \in {<<100, 110>>, <<105, 120>>},
       levrange \in {<<>>, <<500, 850>>, <<600, 1000>>} :
        CallSubset(years, months, latrange, lonrange, levrange)

SpecSubset == InitSubset /\ [][NextSubset]_vars

SubsetReturned == call.op = "subset_dims" /\ ret.tag = "ok"

\* The labels of a coordinate within [lo, hi], bounds included, in order.
Within(s, lo, hi) == LET In(v) == lo <= v /\ v <= hi IN SelectSeq(s, In)

\* C2: on ascending lat and lon and ranges with lo <= hi, the returned lat and
\* lon coordinates are exactly the source labels within the range, both bounds
\* included, in source order.
C2_SpatialSlice ==
    (/\ SubsetReturned
     /\ IsIncreasing(call.data.coords["lat"])
     /\ IsIncreasing(call.data.coords["lon"])
     /\ call.latrange[1] <= call.latrange[2]
     /\ call.lonrange[1] <= call.lonrange[2])
    => /\ ret.ds.coords["lat"] =
             Within(call.data.coords["lat"], call.latrange[1], call.latrange[2])
       /\ ret.ds.coords["lon"] =
             Within(call.data.coords["lon"], call.lonrange[1], call.lonrange[2])

C2_Witness ==
    /\ SubsetReturned
    /\ call.data.coords["lat"] = <<0, 10, 20, 30>>
    /\ call.latrange = <<5, 25>>
    /\ IsIncreasing(call.data.coords["lon"])
    /\ ret.ds.coords["lat"] = <<10, 20>>

\* Whether instant t lies in month m of year y, from the month's first instant
\* and the next month's.
InMonth(t, y, m) ==
    /\ Stamp(y, m, 1, 0, 0) <= t
    /\ t < (IF m = 12 THEN Stamp(y + 1, 1, 1, 0, 0) ELSE Stamp(y, m + 1, 1, 0, 0))

LevelOmitted ==
    subset_dims(call.data, call.years, call.months, call.latrange, call.lonrange, <<>>)

\* C10 as stated: with a level range and a lev dimension, the returned lev
\* coordinate is exactly the input levels within the range, whatever the order
\* of the input levels.
C10_Original ==
    (SubsetReturned /\ Len(call.levrange) > 0 /\ HasDim(call.data, "lev"))
    => ret.ds.coords["lev"] =
          Within(call.data.coords["lev"], call.levrange[1], call.levrange[2])

\* C10 (amended): the level slice is taken iff a level range is supplied and
\* the dataset has a lev dimension.  Without a range every level is kept;
\* with a range but no lev the call behaves as with the range omitted; with
\* both, and the input levels ascending, the returned lev coordinate is exactly
\* the input levels within the range (bounds included), the other coordinates
\* being those of the spatial slice and the temporal filter.
C10_LevelSlice ==
    call.op = "subset_dims" =>
        /\ (Len(call.levrange) = 0 /\ HasDim(call.data, "lev") /\ ret.tag = "ok")
              => ret.ds.coords["lev"] = call.data.coords["lev"]
        /\ (Len(call.levrange) > 0 /\ ~HasDim(call.data, "lev"))
              => /\ ret = LevelOmitted
                 /\ ret.tag = "raise" => ret.err = "KeyError"
        /\ (Len(call.levrange) > 0 /\ HasDim(call.data, "lev") /\ ret.tag = "ok"
                /\ IsIncreasing(call.data.coords["lev"]))
              => /\ ret.ds.coords["lev"] =
                       Within(call.data.coords["lev"], call.levrange[1], call.levrange[2])
                 /\ \A dim \in {"time", "lat", "lon"} :
                       ret.ds.coords[dim] = LevelOmitted.ds.coords[dim]

C10_Witness ==
    /\ SubsetReturned
    /\ call.levrange = <<500, 850>>
    /\ call.data.coords["lat"] = <<0, 10, 20, 30>>
    /\ HasDim(call.data, "lev")
    /\ call.data.coords["lev"] = <<500, 850, 1000>>
    /\ ret.ds.coords["lev"] = <<500, 850>>
    /\ Len(ret.ds.coords["time"]) = 2

\* ---------------------------------------------- specification: resample_time
\* Inputs: up to maxlen + 1 half-hourly time steps in any order, with repeats,
\* and data with missing values at any set of time steps.
ResampleInputs(maxlen) ==
    UNION {
      {WithMissing(MkDataset(dims, [time |-> MapSeq(to_datetimeindex, ts),
                                    lat |-> la, lon |-> <<100>>],
                             [time |-> "M", lat |-> "f", lon |-> "f"]), holes) :
            holes \in SUBSET (1..Len(ts))} :
        dims \in {Dims3, <<"lat", "time", "lon">>},
        ts \in SeqsUpTo({Jun15_0000, Jun15_0030, Jun15_0100}, maxlen + 1),
        la \in {<<0>>, <<0, 10>>}}

InitResample ==
    /\ d \in ResampleInputs(MaxLen)
    /\ origin = "input"
    /\ call = NoCall
    /\ ret = NoRet
    /\ fs = <<>>
    /\ writes = <<>>

NextResample ==
    \/ \E frequency \in {"30min", "h", "D"} : CallResample(frequency)
    \/ Rebind

SpecResample == InitResample /\ [][NextResample]_vars

ResampleReturned == call.op = "resample_time" /\ ret.tag = "ok"

\* Whether g is the boundary of the period of f minutes that holds instant t.
FloorsTo(t, g, f) == g % f = 0 /\ g <= t /\ t < g + f

\* C1: resample_time returns exactly one row per distinct floored timestamp,
\* and each value of the row is the value of the first observation of the
\* input whose time floors to that timestamp, whatever the data values.
C1_FirstInGroup ==
    ResampleReturned =>
        LET in   == call.data
            out  == ret.ds
            f    == FreqMinutes(call.frequency)
            ax   == AxisOf(in.dims, "time")
            Group(g) == {i \in DOMAIN in.coords["time"] : FloorsTo(in.coords["time"][i], g, f)}
            First(g) == CHOOSE i \in Group(g) : \A j \in Group(g) : i <= j
        IN /\ \A i \in DOMAIN in.coords["time"] :
                 Cardinality({r \in DOMAIN out.coords["time"] :
                                 FloorsTo(in.coords["time"][i], out.coords["time"][r], f)}) = 1
           /\ \A r \in DOMAIN out.coords["time"] : Group(out.coords["time"][r]) # {}
           /\ \A t \in Cells(out) :
                 out.data[t] = in.data[[t EXCEPT ![ax] = First(out.coords["time"][t[ax]])]]

\* ------------------------------- specification: create_dataset, save_dataset
Precip == <<"p", "r", "e", "c", "i", "p">>
TmpX == <<"/", "t", "m", "p", "/", "x">>

\* Input arrays: with lev as a dimension, as a scalar (non-dimension)
\* coordinate left by a point selection, or absent; in several axis orders.
ArrayInputs ==
    {MkDataset(dims,
               IF lev = "none"
               THEN [time |-> MapSeq(to_datetimeindex, <<Jun15_0000, Jul01_0000>>),
                     lat |-> <<0, 10>>, lon |-> <<100>>]
               ELSE [time |-> MapSeq(to_datetimeindex, <<Jun15_0000, Jul01_0000>>),
                     lat |-> <<0, 10>>, lon |-> <<100>>,
                     lev |-> IF lev = "scalar" THEN <<500>> ELSE <<500, 850>>],
               IF lev = "none"
               THEN [time |-> "M", lat |-> "f", lon |-> "f"]
               ELSE [time |-> "M", lat |-> "f", lon |-> "f", lev |-> "f"]) :
        dims \in {Dims3, <<"lon", "time", "lat">>}, lev \in {"none", "scalar"}}
    \cup
    {MkDataset(dims,
               [time |-> MapSeq(to_datetimeindex, <<Jun15_0000, Jul01_0000>>),
                lat |-> <<0, 10>>, lon |-> <<100>>, lev |-> <<500, 850>>],
               [time |-> "M", lat |-> "f", lon |-> "f", lev |-> "f"]) :
        dims \in {Dims4, <<"lev", "time", "lon", "lat">>}}

\* Datasets that did not come from create_dataset: no variable, two variables.
Var(name) == [name |-> name, dims |-> <<>>, data |-> <<>>, attrs |-> <<>>]
DatasetInputs ==
    {[data_vars |-> vs, coords |-> <<>>, attrs |-> <<>>] :
        vs \in {<<>>, <<Var(<<"t">>), Var(Precip)>>, <<Var(<<"a", "/", "b">>)>>}}

\* File systems before the first call: empty, the target already there, or
\* another file there.
OldFile == [format |-> "old"]
FsInputs ==
    {<<>>,
     [p \in {TmpX \o <<"/">> \o filename_of(Precip)} |-> OldFile],
     [p \in {filename_of(<<"t">>), TmpX \o <<"/">> \o filename_of(<<"t">>)} |-> OldFile]}

InitOutput ==
    /\ d \in ArrayInputs \cup DatasetInputs
    /\ origin = "input"
    /\ call = NoCall
    /\ ret = NoRet
    /\ fs \in FsInputs
    /\ writes = <<>>

NextOutput ==
    \/ \E shortname \in {Precip, <<"t">>, DimChars("lat")},
          today \in {[year |-> 2026, month |-> 11, day |-> 4],
                     [year |-> 2025, month |-> 1, day |-> 31]} :
            CallCreate(shortname, "Precipitation", "mm/hr", "IMERG V06",
                       "A. Author", "author@example.org", today)
    \/ \E savedir \in {TmpX, TmpX \o <<"/">>, <<>>, <<"o", "u", "t">>} :
            CallSave(savedir)
    \/ Rebind
    \/ Discard

SpecOutput == InitOutput /\ [][NextOutput]_vars

CreateReturned == call.op = "create_dataset" /\ ret.tag = "ok"

\* C6: create_dataset returns exactly one data variable, keyed by shortname,
\* with the input's dimensions in the input's order and the input's values;
\* its coordinates are exactly the dimensions of the input array (lev is a
\* coordinate of the output iff it is a dimension of the input).
C6_SingleVariable ==
    CreateReturned =>
        /\ Len(ret.ds.data_vars) = 1
        /\ ret.ds.data_vars[1].name = call.shortname
        /\ ret.ds.data_vars[1].dims = call.data.dims
        /\ ret.ds.data_vars[1].data = call.data.data
        /\ DOMAIN ret.ds.coords = Range(call.data.dims)
        /\ \A dim \in DOMAIN ret.ds.coords :
              ret.ds.coords[dim].values = call.data.coords[dim]
        /\ ("lev" \in DOMAIN ret.ds.coords) <=> HasDim(call.data, "lev")

C6_Witness ==
    /\ CreateReturned
    /\ call.shortname = Precip
    /\ call.data.dims = <<"lon", "time", "lat">>
    /\ "lev" \in DOMAIN call.data.coords
    /\ "lev" \notin DOMAIN ret.ds.coords

\* C7 as stated: every coordinate of the returned dataset carries both a
\* long_name and a units attribute.
C7_Original ==
    CreateReturned =>
        \A dim \in DOMAIN ret.ds.coords :
            {"long_name", "units"} \subseteq DOMAIN ret.ds.coords[dim].attrs

\* C7 (amended): every coordinate of the returned dataset carries a long_name;
\* lat, lon and (when present) lev also carry units, and time carries no units.
C7_CoordAttrs ==
    CreateReturned =>
        \A dim \in DOMAIN ret.ds.coords :
            /\ "long_name" \in DOMAIN ret.ds.coords[dim].attrs
            /\ ("units" \in DOMAIN ret.ds.coords[dim].attrs) <=> dim # "time"

C7_Witness ==
    /\ CreateReturned
    /\ DOMAIN ret.ds.coords = {"time", "lat", "lon", "lev"}
    /\ ret.ds.coords["lev"].attrs = [long_name |-> "Pressure level", units |-> "hPa"]
    /\ ret.ds.coords["time"].attrs = [long_name |-> "Time"]

SaveReturned == call.op = "save_dataset" /\ ret.tag = "returned"

\* The path the claim names: savedir, a separator unless savedir is empty or
\* ends with one, then OBS_<key>.nc.
ExpectedPath(savedir, key) ==
    LET name == <<"O", "B", "S", "_">> \o key \o <<".", "n", "c">>
    IN IF savedir = <<>> THEN name
       ELSE IF savedir[Len(savedir)] = "/" THEN savedir \o name
       ELSE savedir \o <<"/">> \o name

\* C8: save_dataset performs exactly one write, to savedir joined with
\* OBS_<first variable key>.nc, whether or not a file was already there; the
\* file then holds the dataset and no other path is created or changed.
C8_SingleWrite ==
    SaveReturned =>
        LET path == ExpectedPath(call.savedir, call.data.data_vars[1].name)
        IN /\ writes = Append(call.writes, path)
           /\ DOMAIN fs = DOMAIN call.fs \cup {path}
           /\ fs[path] = [format |-> "netcdf", ds |-> call.data]
           /\ \A p \in DOMAIN call.fs : p # path => fs[p] = call.fs[p]

C8_Witness ==
    /\ SaveReturned
    /\ call.savedir = TmpX
    /\ call.origin = "create_dataset"
    /\ call.data.data_vars[1].name = Precip
    /\ writes[Len(writes)] = <<"/", "t", "m", "p", "/", "x", "/",
                                "O", "B", "S", "_", "p", "r", "e", "c", "i", "p", ".", "n", "c">>
    /\ writes[Len(writes)] \in DOMAIN call.fs

\* ------------------------------------------------ specification: the pipeline
\* standardize, subset, resample, package and save, in any order the caller
\* chooses, results bound or dropped.
PipelineInputs ==
    {MkDataset(dims,
               IF "lev" \in Range(dims)
               THEN [time |-> TimeCoord(tk, <<Jun15_0030, Jun15_0000, Jul01_0000>>),
                     lat |-> <<10, 0>>, lon |-> <<100>>, lev |-> <<850, 500>>]
               ELSE [time |-> TimeCoord(tk, <<Jun15_0030, Jun15_0000, Jul01_0000>>),
                     lat |-> <<10, 0>>, lon |-> <<100>>],
               IF "lev" \in Range(dims)
               THEN [time |-> tk, lat |-> sk, lon |-> sk, lev |-> sk]
               ELSE [time |-> tk, lat |-> sk, lon |-> sk]) :
        dims \in {Dims3, <<"lev", "lat", "time", "lon">>},
        tk \in {"M", "O", "i"},
        sk \in {"i", "f"}}

Init ==
    /\ d \in PipelineInputs
    /\ origin = "input"
    /\ call = NoCall
    /\ ret = NoRet
    /\ fs = <<>>
    /\ writes = <<>>

Next ==
    \/ CallStandardize
    \/ \E months \in {{6, 7}, {6}}, levrange \in {<<>>, <<500, 850>>} :
            CallSubset({2020}, months, <<0, 10>>, <<100, 110>>, levrange)
    \/ \E frequency \in {"h", "D"} : CallResample(frequency)
    \/ CallCreate(Precip, "Precipitation", "mm/hr", "IMERG V06", "A. Author",
                  "author@example.org", [year |-> 2026, month |-> 11, day |-> 4])
    \/ \E savedir \in {TmpX, <<>>} : CallSave(savedir)
    \/ Rebind
    \/ Discard

Spec == Init /\ [][Next]_vars

Transformations == {"standardize_dims", "subset_dims", "resample_time"}

\* C9: after any call of standardize_dims, subset_dims or resample_time the
\* dataset object the caller passed has the coordinates (values and kinds),
\* dimension order and data it had at entry.
C9_ArgumentUnchanged == call.op \in Transformations => d = call.data

\* subset_dims alone leaves its argument as it was.
C9_SubsetUnchanged == call.op = "subset_dims" => d = call.data

====
